---- MODULE Spec2Model ----
(***************************************************************************)
(* Product resolver of the price tracker: the server action addProduct,    *)
(* the URL resolver getProductDetails and the Reliance Digital scraper     *)
(* getRelianceDigitalArticleId, together with the client-side Croma        *)
(* extractor extractCromaProductId.                                        *)
(*                                                                         *)
(* JavaScript strings are sequences of one-character strings, so that      *)
(* includes, split, slice, trim, replace and the regular expressions are   *)
(* computed character by character.  null and undefined are the two        *)
(* one-element sequences Null and Undefined, which no JavaScript string    *)
(* of the model equals.                                                    *)
(***************************************************************************)
EXTENDS Integers, Sequences, FiniteSets, TLC

\* ------------------------------------------------------------------------
\* Bounds of the model
\* ------------------------------------------------------------------------

\* Largest number of non-empty segments in a submitted path.
MaxSegs == 2

\* Largest number of specification rows in a fetched page.
MaxRows == 1

\* Length of the long path segment (longer than the truncation limit).
LongLen == 51

\* ------------------------------------------------------------------------
\* JavaScript values
\* ------------------------------------------------------------------------

Null == <<"null">>

Undefined == <<"undefined">>

EmptyString == <<>>

\* !v for a value that is null, undefined or a string
Falsy(v) == v = Null \/ v = Undefined \/ v = EmptyString

\* a || b
OrElse(a, b) == IF Falsy(a) THEN b ELSE a

IsString(v) == v # Null /\ v # Undefined

\* Completions of a function body: a returned value or a thrown Error.
Return(v) == [type |-> "return", value |-> v]

Throw(m) == [type |-> "throw", message |-> m]

\* ------------------------------------------------------------------------
\* Character classes and string literals
\* ------------------------------------------------------------------------

LowerCase ==
    <<"a", "b", "c", "d", "e", "f", "g", "h", "i", "j", "k", "l", "m",
      "n", "o", "p", "q", "r", "s", "t", "u", "v", "w", "x", "y", "z">>

UpperCase ==
    <<"A", "B", "C", "D", "E", "F", "G", "H", "I", "J", "K", "L", "M",
      "N", "O", "P", "Q", "R", "S", "T", "U", "V", "W", "X", "Y", "Z">>

Digits ==
    <<"0", "1", "2", "3", "4", "5", "6", "7", "8", "9">>

Range(s) == {s[i] : i \in DOMAIN s}

DigitChars == Range(Digits)

LowerChars == Range(LowerCase)

WordChars == Range(LowerCase) \cup Range(UpperCase) \cup Range(Digits) \cup {"_"}

\* \d
IsDigit(c) == c \in DigitChars

\* \w
IsWordChar(c) == c \in WordChars

\* \s, for the white space that occurs in the pages of the model
IsSpace(c) == c = " "

\* String.prototype.toUpperCase on one character
toUpperCase(c) ==
    IF c \in LowerChars
    THEN UpperCase[CHOOSE i \in DOMAIN LowerCase : LowerCase[i] = c]
    ELSE c

SigVivo ==
    <<"v", "i", "v", "o", ".", "c", "o", "m">>

SigIqoo ==
    <<"i", "q", "o", "o", ".", "c", "o", "m">>

SigReliance ==
    <<"r", "e", "l", "i", "a", "n", "c", "e", "d", "i", "g", "i", "t", "a", "l", ".", "i", "n">>

SigFlipkart ==
    <<"f", "l", "i", "p", "k", "a", "r", "t", ".", "c", "o", "m">>

SigAmazon ==
    <<"a", "m", "a", "z", "o", "n", ".", "i", "n">>

SigApple ==
    <<"a", "p", "p", "l", "e", ".", "c", "o", "m">>

SigCroma ==
    <<"c", "r", "o", "m", "a", ".", "c", "o", "m">>

VivoDefault ==
    <<"V", "i", "v", "o", " ", "P", "r", "o", "d", "u", "c", "t">>

IqooDefault ==
    <<"i", "Q", "O", "O", " ", "P", "r", "o", "d", "u", "c", "t">>

FlipkartDefault ==
    <<"F", "l", "i", "p", "k", "a", "r", "t", " ", "P", "r", "o", "d", "u", "c", "t">>

AmazonDefault ==
    <<"A", "m", "a", "z", "o", "n", " ", "P", "r", "o", "d", "u", "c", "t">>

AppleDefault ==
    <<"A", "p", "p", "l", "e", " ", "P", "r", "o", "d", "u", "c", "t">>

CromaDefault ==
    <<"C", "r", "o", "m", "a", " ", "P", "r", "o", "d", "u", "c", "t">>

VivoPrefix ==
    <<"(", "V", "i", "v", "o", ")", " ">>

IqooPrefix ==
    <<"(", "i", "Q", "O", "O", ")", " ">>

ReliancePrefix ==
    <<"(", "R", ".", " ", "D", "i", "g", "i", "t", "a", "l", ")", " ">>

FlipkartPrefix ==
    <<"(", "F", "l", "i", "p", "k", "a", "r", "t", ")", " ">>

AmazonPrefix ==
    <<"(", "A", "m", "a", "z", "o", "n", ")", " ">>

ApplePrefix ==
    <<"(", "A", "p", "p", "l", "e", ")", " ">>

CromaPrefix ==
    <<"(", "C", "r", "o", "m", "a", ")", " ">>

Ellipsis ==
    <<".", ".", ".">>

ItemCodeLabel ==
    <<"I", "t", "e", "m", " ", "C", "o", "d", "e">>

OgSuffix ==
    <<"-", "i", "-", "1">>

AddedPrefix ==
    <<"A", "d", "d", "e", "d", " ">>

SegProduct ==
    <<"p", "r", "o", "d", "u", "c", "t">>

SegDp ==
    <<"d", "p">>

\* Number of characters slice(0, 50) keeps.
NameLimit == 50

\* Number of digits the og:image pattern captures.
CodeDigits == 9

\* ------------------------------------------------------------------------
\* String operations
\* ------------------------------------------------------------------------

Min(a, b) == IF a < b THEN a ELSE b

\* s.includes(sub)
Includes(s, sub) ==
    \E i \in 0..(Len(s) - Len(sub)) : SubSeq(s, i + 1, i + Len(sub)) = sub

\* s.split('/')
RECURSIVE Split(_)
Split(s) ==
    LET slashes == {i \in DOMAIN s : s[i] = "/"}
    IN  IF slashes = {}
        THEN <<s>>
        ELSE LET i == CHOOSE k \in slashes : \A j \in slashes : k <= j
             IN  <<SubSeq(s, 1, i - 1)>> \o Split(SubSeq(s, i + 1, Len(s)))

\* parts.filter(p => p.length > 0)
NonEmptyParts(parts) == SelectSeq(parts, LAMBDA p : Len(p) > 0)

\* parts[i] with a zero-based index; undefined outside the array
At(parts, i) ==
    IF i >= 0 /\ i < Len(parts) THEN parts[i + 1] ELSE Undefined

\* parts.indexOf(x), zero-based, -1 when absent
IndexOf(parts, x) ==
    LET hits == {i \in DOMAIN parts : parts[i] = x}
    IN  IF hits = {}
        THEN -1
        ELSE (CHOOSE k \in hits : \A j \in hits : k <= j) - 1

\* /^\d+$/.test(s)
AllDigits(s) == Len(s) > 0 /\ \A i \in DOMAIN s : IsDigit(s[i])

\* s.replace(/-/g, ' ')
HyphensToSpaces(s) == [i \in DOMAIN s |-> IF s[i] = "-" THEN " " ELSE s[i]]

\* s.replace(/\b\w/g, l => l.toUpperCase())
CapitalizeWords(s) ==
    [i \in DOMAIN s |->
        IF IsWordChar(s[i]) /\ (i = 1 \/ ~IsWordChar(s[i - 1]))
        THEN toUpperCase(s[i])
        ELSE s[i]]

\* slice without its end index
Slice_NoLimit(s) == s

\* s.slice(0, 50)
Slice(s) == SubSeq(s, 1, Min(Len(s), NameLimit))

\* s.trim()
RECURSIVE Trim(_)
Trim(s) ==
    IF s = <<>> THEN s
    ELSE IF IsSpace(s[1]) THEN Trim(Tail(s))
    ELSE IF IsSpace(s[Len(s)]) THEN Trim(SubSeq(s, 1, Len(s) - 1))
    ELSE s

\* imageMeta.match(/-(\d{9})-i-1/): the captured group, Null without a match
OgImageMatch(s) ==
    LET n == CodeDigits
        hits == {i \in DOMAIN s :
                    /\ i + n + Len(OgSuffix) <= Len(s)
                    /\ s[i] = "-"
                    /\ \A k \in 1..n : IsDigit(s[i + k])
                    /\ SubSeq(s, i + n + 1, i + n + Len(OgSuffix)) = OgSuffix}
    IN  IF hits = {}
        THEN Null
        ELSE LET i == CHOOSE k \in hits : \A j \in hits : k <= j
             IN  SubSeq(s, i + 1, i + n)

\* obj.f: undefined when the object has no such property
Field(obj, f) == IF f \in DOMAIN obj THEN obj[f] ELSE Undefined

\* ------------------------------------------------------------------------
\* getRelianceDigitalArticleId
\* ------------------------------------------------------------------------

\* $(el).find('span:first-child').text().trim() of a specification row
RowLabel(row) == Trim(row.label)

\* $(el).find('.specifications-list--right ul').text().trim()
RowValue(row) == Trim(row.value)

\* The .each loop over li.specifications-list: the value of the first row
\* labelled 'Item Code', null when no row carries that label.
StructuredTier(rows) ==
    LET hits == {i \in DOMAIN rows : RowLabel(rows[i]) = ItemCodeLabel}
    IN  IF hits = {}
        THEN Null
        ELSE RowValue(rows[CHOOSE k \in hits : \A j \in hits : k <= j])

\* The og:image fallback: the digits captured from the content attribute.
FallbackTier(ogImage) ==
    IF Falsy(ogImage) THEN Null ELSE OgImageMatch(ogImage)

\* The tiers in the opposite order of preference: the image code wins.
ParsePage_PreferImage(response) ==
    LET m == FallbackTier(response.ogImage)
    IN  IF m # Null
        THEN [articleId |-> m, tiers |-> <<"structured", "fallback">>]
        ELSE [articleId |-> StructuredTier(response.rows),
              tiers     |-> <<"structured", "fallback">>]

\* The part of the scraper that runs on a response with response.ok.
ParsePage(response) ==
    LET articleId == StructuredTier(response.rows)
    IN  IF Falsy(articleId)
        THEN LET m == FallbackTier(response.ogImage)
             IN  [articleId |-> IF m # Null THEN m ELSE articleId,
                  tiers     |-> <<"structured", "fallback">>]
        ELSE [articleId |-> articleId, tiers |-> <<"structured">>]

\* The scraper without its response.ok test.
getRelianceDigitalArticleId_IgnoreStatus(response) ==
    IF response.outcome = "exception"
    THEN [articleId |-> Null, tiers |-> <<>>]
    ELSE ParsePage(response)

\* The whole scraper applied to the outcome of its fetch: the returned
\* value and the extraction tiers it went through.
getRelianceDigitalArticleId(response) ==
    IF response.outcome = "exception"
    THEN [articleId |-> Null, tiers |-> <<>>]
    ELSE IF response.outcome = "notOk"
    THEN [articleId |-> Null, tiers |-> <<>>]
    ELSE ParsePage(response)

\* ------------------------------------------------------------------------
\* getProductDetails
\* ------------------------------------------------------------------------

\* The chain without the iQOO exclusion in the Vivo test.
Classify_NoExclusion(hostname) ==
    IF Includes(hostname, SigVivo) THEN "vivo"
    ELSE IF Includes(hostname, SigIqoo) THEN "iqoo"
    ELSE IF Includes(hostname, SigReliance) THEN "reliance_digital"
    ELSE IF Includes(hostname, SigFlipkart) THEN "flipkart"
    ELSE IF Includes(hostname, SigAmazon) THEN "amazon"
    ELSE IF Includes(hostname, SigApple) THEN "apple"
    ELSE IF Includes(hostname, SigCroma) THEN "croma"
    ELSE "unsupported"

\* The chain with the last branch taken without its hostname test.
Classify_GuessCroma(hostname) ==
    IF Includes(hostname, SigVivo) /\ ~Includes(hostname, SigIqoo) THEN "vivo"
    ELSE IF Includes(hostname, SigIqoo) THEN "iqoo"
    ELSE IF Includes(hostname, SigReliance) THEN "reliance_digital"
    ELSE IF Includes(hostname, SigFlipkart) THEN "flipkart"
    ELSE IF Includes(hostname, SigAmazon) THEN "amazon"
    ELSE IF Includes(hostname, SigApple) THEN "apple"
    ELSE "croma"

\* The chain of hostname tests, in the order of the code.
Classify(hostname) ==
    IF Includes(hostname, SigVivo) /\ ~Includes(hostname, SigIqoo) THEN "vivo"
    ELSE IF Includes(hostname, SigIqoo) THEN "iqoo"
    ELSE IF Includes(hostname, SigReliance) THEN "reliance_digital"
    ELSE IF Includes(hostname, SigFlipkart) THEN "flipkart"
    ELSE IF Includes(hostname, SigAmazon) THEN "amazon"
    ELSE IF Includes(hostname, SigApple) THEN "apple"
    ELSE IF Includes(hostname, SigCroma) THEN "croma"
    ELSE "unsupported"

Descriptor(name, productId, storeType, partNumber) ==
    [name |-> name, productId |-> productId,
     storeType |-> storeType, partNumber |-> partNumber]

\* rawName.replace(/-/g, ' ').replace(/\b\w/g, ...).slice(0, 50) + '...'
TitledName(rawName) == Slice(CapitalizeWords(HyphensToSpaces(rawName))) \o Ellipsis

\* (segment || fallback).replace(/-/g, ' ').slice(0, 50) + '...'
PlainName(segment, fallback) == Slice(HyphensToSpaces(OrElse(segment, fallback))) \o Ellipsis

\* The Vivo and iQOO branches, which differ in label, prefix and store only.
BrandStrategy(parsedUrl, default, prefix, storeType, message) ==
    LET pathParts   == NonEmptyParts(Split(parsedUrl.pathname))
        pid         == At(pathParts, Len(pathParts) - 1)
        nameSegment == IF Len(pathParts) >= 2
                       THEN At(pathParts, Len(pathParts) - 2)
                       ELSE default
        rawName     == IF nameSegment = SegProduct \/ AllDigits(nameSegment)
                       THEN default
                       ELSE nameSegment
    IN  IF Falsy(pid)
        THEN Throw(message)
        ELSE Return(Descriptor(prefix \o TitledName(rawName), pid, storeType, Null))

VivoStrategy(parsedUrl) ==
    BrandStrategy(parsedUrl, VivoDefault, VivoPrefix, "vivo",
                  "Could not find a valid product ID in the Vivo URL.")

IqooStrategy(parsedUrl) ==
    BrandStrategy(parsedUrl, IqooDefault, IqooPrefix, "iqoo",
                  "Could not find a valid product ID in the iQOO URL.")

\* The branch with a null test in place of the truthiness test.
RelianceStrategy_NullCheck(parsedUrl, internalArticleId) ==
    LET pathParts == NonEmptyParts(Split(parsedUrl.pathname))
        slug      == At(pathParts, Len(pathParts) - 1)
        nameBase  == IF Len(pathParts) > 1
                     THEN At(pathParts, Len(pathParts) - 2)
                     ELSE slug
    IN  IF internalArticleId = Null
        THEN Throw("Could not extract the internal Item Code from the Reliance Digital page.")
        ELSE IF ~IsString(nameBase)
        THEN Throw("Cannot read properties of undefined (reading 'replace')")
        ELSE Return(Descriptor(ReliancePrefix \o TitledName(nameBase),
                               internalArticleId, "reliance_digital", slug))

\* The branch with the name always taken from the slug.
RelianceStrategy_NameFromSlug(parsedUrl, internalArticleId) ==
    LET pathParts == NonEmptyParts(Split(parsedUrl.pathname))
        slug      == At(pathParts, Len(pathParts) - 1)
        nameBase  == slug
    IN  IF Falsy(internalArticleId)
        THEN Throw("Could not extract the internal Item Code from the Reliance Digital page.")
        ELSE IF ~IsString(nameBase)
        THEN Throw("Cannot read properties of undefined (reading 'replace')")
        ELSE Return(Descriptor(ReliancePrefix \o TitledName(nameBase),
                               internalArticleId, "reliance_digital", slug))

\* The Reliance Digital branch after the scraper has returned.
RelianceStrategy(parsedUrl, internalArticleId) ==
    LET pathParts == NonEmptyParts(Split(parsedUrl.pathname))
        slug      == At(pathParts, Len(pathParts) - 1)
        nameBase  == IF Len(pathParts) > 1
                     THEN At(pathParts, Len(pathParts) - 2)
                     ELSE slug
    IN  IF Falsy(internalArticleId)
        THEN Throw("Could not extract the internal Item Code from the Reliance Digital page.")
        ELSE IF ~IsString(nameBase)
        THEN Throw("Cannot read properties of undefined (reading 'replace')")
        ELSE Return(Descriptor(ReliancePrefix \o TitledName(nameBase),
                               internalArticleId, "reliance_digital", slug))

FlipkartStrategy(parsedUrl) ==
    LET pid == parsedUrl.pid
    IN  IF Falsy(pid)
        THEN Throw("Flipkart URL is missing a \"pid\" query parameter.")
        ELSE Return(Descriptor(
                 FlipkartPrefix \o PlainName(At(Split(parsedUrl.pathname), 1), FlipkartDefault),
                 pid, "flipkart", Null))

AmazonStrategy(parsedUrl) ==
    LET pathParts == Split(parsedUrl.pathname)
        dpIndex   == IndexOf(pathParts, SegDp)
    IN  IF dpIndex = -1 \/ Falsy(At(pathParts, dpIndex + 1))
        THEN Throw("Could not find a valid ASIN (e.g., /dp/B0CX59H5W7) in the Amazon URL.")
        ELSE Return(Descriptor(
                 AmazonPrefix \o PlainName(At(pathParts, dpIndex - 1), AmazonDefault),
                 At(pathParts, dpIndex + 1), "amazon", Null))

AppleStrategy(parsedUrl, partNumber) ==
    IF Falsy(partNumber)
    THEN Throw("Apple products require a Part Number.")
    ELSE Return(Descriptor(
             ApplePrefix \o PlainName(At(Split(parsedUrl.pathname), 3), AppleDefault),
             partNumber, "apple", partNumber))

CromaStrategy(parsedUrl) ==
    LET pathParts == Split(parsedUrl.pathname)
        pid       == At(pathParts, Len(pathParts) - 1)
    IN  IF Falsy(pid) \/ ~AllDigits(pid)
        THEN Throw("Could not find a valid product ID in the Croma URL.")
        ELSE Return(Descriptor(
                 CromaPrefix \o PlainName(At(pathParts, 1), CromaDefault),
                 pid, "croma", Null))

UnsupportedMessage ==
    "Sorry, only Croma, Apple, Amazon, Flipkart, Vivo, iQOO, and Reliance Digital URLs are supported."

\* The body of the try block; internalArticleId is what the scraper returned
\* and is read by the Reliance Digital branch only.
ResolveBody(url, partNumber, internalArticleId) ==
    IF ~url.parses
    THEN Throw("Invalid URL")
    ELSE LET store == Classify(url.hostname)
         IN  CASE store = "vivo"             -> VivoStrategy(url)
               [] store = "iqoo"             -> IqooStrategy(url)
               [] store = "reliance_digital" -> RelianceStrategy(url, internalArticleId)
               [] store = "flipkart"         -> FlipkartStrategy(url)
               [] store = "amazon"           -> AmazonStrategy(url)
               [] store = "apple"            -> AppleStrategy(url, partNumber)
               [] store = "croma"            -> CromaStrategy(url)
               [] OTHER                      -> Throw(UnsupportedMessage)

\* The resolver without its catch block.
CatchAll_Rethrow(completion) == completion

\* catch (error) { return { error: error.message }; }
CatchAll(completion) ==
    IF completion.type = "throw"
    THEN Return([error |-> completion.message])
    ELSE completion

getProductDetails(url, partNumber, internalArticleId) ==
    CatchAll(ResolveBody(url, partNumber, internalArticleId))

\* The URL reaches the await of the scraper.
NeedsFetch(url) == url.parses /\ Classify(url.hostname) = "reliance_digital"

\* ------------------------------------------------------------------------
\* extractCromaProductId (client side)
\* ------------------------------------------------------------------------

extractCromaProductId(url) ==
    IF ~url.parses
    THEN Null
    ELSE LET pathParts   == NonEmptyParts(Split(url.pathname))
             lastSegment == At(pathParts, Len(pathParts) - 1)
         IN  IF ~Falsy(lastSegment) /\ AllDigits(lastSegment)
             THEN lastSegment
             ELSE Null

\* ------------------------------------------------------------------------
\* Inputs: submitted forms and fetched responses
\* ------------------------------------------------------------------------

HostVivo ==
    <<"w", "w", "w", ".", "v", "i", "v", "o", ".", "c", "o", "m">>

HostIqoo ==
    <<"w", "w", "w", ".", "i", "q", "o", "o", ".", "c", "o", "m">>

HostIqooVivo ==
    <<"i", "q", "o", "o", ".", "c", "o", "m", ".", "v", "i", "v", "o", ".", "c", "o", "m">>

HostReliance ==
    <<"w", "w", "w", ".", "r", "e", "l", "i", "a", "n", "c", "e", "d", "i", "g", "i", "t", "a", "l", ".", "i", "n">>

HostFlipkart ==
    <<"w", "w", "w", ".", "f", "l", "i", "p", "k", "a", "r", "t", ".", "c", "o", "m">>

HostAmazon ==
    <<"w", "w", "w", ".", "a", "m", "a", "z", "o", "n", ".", "i", "n">>

HostApple ==
    <<"w", "w", "w", ".", "a", "p", "p", "l", "e", ".", "c", "o", "m">>

HostCroma ==
    <<"w", "w", "w", ".", "c", "r", "o", "m", "a", ".", "c", "o", "m">>

HostExample ==
    <<"e", "x", "a", "m", "p", "l", "e", ".", "o", "r", "g">>

HostNearMiss ==
    <<"s", "h", "o", "p", ".", "v", "i", "v", "o", ".", "c", "o">>

Hosts ==
    {HostVivo, HostIqoo, HostIqooVivo, HostReliance, HostFlipkart,
     HostAmazon, HostApple, HostCroma, HostExample, HostNearMiss}

SegDigits ==
    <<"2", "0", "5", "7">>

\* A hyphenated lower-case segment of LongLen characters.
SegLong == <<"g", "-">> \o [i \in 1..(LongLen - 2) |-> "a"]

Segs == {SegProduct, SegDigits, SegDp, SegLong}

SegSeqs == UNION {[1..n -> Segs] : n \in 0..MaxSegs}

\* The pathname with the given non-empty segments, with or without a
\* trailing slash; the pathname of a parsed URL always starts with a slash.
RECURSIVE PathOf(_, _)
PathOf(segs, trailing) ==
    IF segs = <<>>
    THEN <<"/">>
    ELSE IF Len(segs) = 1
    THEN <<"/">> \o segs[1] \o (IF trailing THEN <<"/">> ELSE <<>>)
    ELSE <<"/">> \o segs[1] \o PathOf(Tail(segs), trailing)

\* A deeper path, which has a segment at every index the branches read.
DeepPath == PathOf(<<SegProduct, SegDp, SegDigits, SegLong>>, FALSE)

Pathnames == {PathOf(segs, t) : segs \in SegSeqs, t \in BOOLEAN} \cup {DeepPath}

PidValue ==
    <<"P", "1">>

PartValue ==
    <<"M", "X">>

AffValue ==
    <<"a", "f">>

\* searchParams.get('pid'): absent, present and empty, present
Pids == {Null, EmptyString, PidValue}

\* formData.get('url'): a missing field, an empty field, a text that does
\* not parse as a URL, or a text that new URL() parses into its parts.
UrlNull == [given |-> "null", parses |-> FALSE, hostname |-> <<>>, pathname |-> <<>>, pid |-> Null]

UrlEmpty == [given |-> "empty", parses |-> FALSE, hostname |-> <<>>, pathname |-> <<>>, pid |-> Null]

UrlGarbage == [given |-> "text", parses |-> FALSE, hostname |-> <<>>, pathname |-> <<>>, pid |-> Null]

Urls ==
    {UrlNull, UrlEmpty, UrlGarbage} \cup
    [given : {"text"}, parses : {TRUE}, hostname : Hosts, pathname : Pathnames, pid : Pids]

FormDatas ==
    [url : Urls, partNumber : {Null, EmptyString, PartValue}, affiliateLink : {Null, AffValue}]

RawItemCodeLabel ==
    <<" ", "I", "t", "e", "m", " ", "C", "o", "d", "e", " ">>

RawItemCodeValue ==
    <<" ", "3", "0", "0", "0", "1", "2", "3", "4", "5", " ">>

RawBrandLabel ==
    <<"B", "r", "a", "n", "d">>

RawBrandValue ==
    <<"A", "c", "m", "e">>

OgMatching ==
    <<"f", "-", "3", "0", "0", "0", "5", "4", "3", "2", "1", "-", "i", "-", "1", ".", "j", "p", "g">>

OgNoHyphen ==
    <<"f", "3", "0", "0", "0", "5", "4", "3", "2", "1", "-", "i", "-", "1", ".", "j", "p", "g">>


\* Specification rows: an Item Code row with a value, an Item Code row whose
\* value is white space only, and a row with another label.
RowItemCode == [label |-> RawItemCodeLabel, value |-> RawItemCodeValue]

RowBlankCode == [label |-> ItemCodeLabel, value |-> <<" ", " ">>]

RowBrand == [label |-> RawBrandLabel, value |-> RawBrandValue]

Rows == {RowItemCode, RowBlankCode, RowBrand}

\* A longer page: a row with another label, then an Item Code row without a
\* value, then an Item Code row with one.
DeepRows == <<RowBrand, RowBlankCode, RowItemCode>>

RowSeqs == UNION {[1..n -> Rows] : n \in 0..MaxRows} \cup {DeepRows}

\* content of meta[property="og:image"]: no tag, a matching file name, a
\* file name whose digits are not preceded by a hyphen
OgImages == {Undefined, OgMatching, OgNoHyphen}

\* Outcomes of the fetch: a response with response.ok, a response with
\* another status, a transport exception.
Responses ==
    [outcome : {"ok"}, rows : RowSeqs, ogImage : OgImages] \cup
    [outcome : {"notOk"}, rows : {rs \in RowSeqs : Len(rs) <= 1}, ogImage : {Undefined, OgMatching}] \cup
    {[outcome |-> "exception", rows |-> <<>>, ogImage |-> Undefined]}

NoResponse == [outcome |-> "none", rows |-> <<>>, ogImage |-> Undefined]

NoForm == [url |-> UrlNull, partNumber |-> Null, affiliateLink |-> Null]

Pending == [type |-> "pending"]

NoResult == [pending |-> TRUE]

\* ------------------------------------------------------------------------
\* State
\* ------------------------------------------------------------------------

VARIABLES
    pc,                 \* position of the addProduct call
    formData,           \* the submitted form
    fetches,            \* number of outbound GETs issued
    response,           \* outcome of the fetch
    tiers,              \* extraction tiers the scraper went through
    internalArticleId,  \* value returned by the scraper
    details,            \* completion of getProductDetails
    created,            \* data of the prisma.product.create calls
    createSettled,      \* how the create call settled: none, resolved, rejected
    revalidated,        \* number of revalidatePath calls
    result              \* completion of addProduct

vars ==
    <<pc, formData, fetches, response, tiers, internalArticleId,
      details, created, createSettled, revalidated, result>>

Init ==
    /\ pc = "idle"
    /\ formData = NoForm
    /\ fetches = 0
    /\ response = NoResponse
    /\ tiers = <<>>
    /\ internalArticleId = Null
    /\ details = Pending
    /\ created = <<>>
    /\ createSettled = "none"
    /\ revalidated = 0
    /\ result = NoResult

\* ------------------------------------------------------------------------
\* addProduct
\* ------------------------------------------------------------------------

\* !url on the submitted field
UrlMissing(url) == url.given # "text"

\* addProduct without its test of details.error.
HasError_Never(d) == FALSE

\* if (details.error): messages are kept as whole strings, "" the empty one
HasError(d) == "error" \in DOMAIN d /\ d.error # ""

\* The data handed to prisma.product.create.
CreateData(fd, d) ==
    [name          |-> Field(d, "name"),
     url           |-> fd.url,
     productId     |-> Field(d, "productId"),
     storeType     |-> Field(d, "storeType"),
     partNumber    |-> Field(d, "partNumber"),
     affiliateLink |-> OrElse(fd.affiliateLink, Null)]

\* addProduct from the completion of getProductDetails up to its next
\* await: an exception escapes, the error is returned, or create is called.
AfterDetails(fd, completion) ==
    IF completion.type = "throw"
    THEN /\ pc' = "done"
         /\ result' = Throw(completion.message)
         /\ created' = created
    ELSE IF HasError(completion.value)
    THEN /\ pc' = "done"
         /\ result' = Return([error |-> completion.value.error])
         /\ created' = created
    ELSE /\ pc' = "creating"
         /\ result' = result
         /\ created' = Append(created, CreateData(fd, completion.value))

\* addProduct with a missing or empty url field.
AddProductNoUrl ==
    /\ pc = "idle"
    /\ \E fd \in FormDatas :
        /\ UrlMissing(fd.url)
        /\ formData' = fd
        /\ pc' = "done"
        /\ result' = Return([error |-> "URL is required."])
    /\ UNCHANGED <<fetches, response, tiers, internalArticleId, details, created, createSettled, revalidated>>

\* addProduct with a url that getProductDetails settles without a fetch.
AddProductResolve ==
    /\ pc = "idle"
    /\ \E fd \in FormDatas :
        /\ ~UrlMissing(fd.url)
        /\ ~NeedsFetch(fd.url)
        /\ formData' = fd
        /\ LET d == getProductDetails(fd.url, fd.partNumber, Null)
           IN  /\ details' = d
               /\ AfterDetails(fd, d)
    /\ UNCHANGED <<fetches, response, tiers, internalArticleId, createSettled, revalidated>>

\* addProduct with a Reliance Digital url: the scraper issues its GET.
AddProductFetch ==
    /\ pc = "idle"
    /\ \E fd \in FormDatas :
        /\ ~UrlMissing(fd.url)
        /\ NeedsFetch(fd.url)
        /\ formData' = fd
    /\ fetches' = fetches + 1
    /\ pc' = "fetching"
    /\ UNCHANGED <<response, tiers, internalArticleId, details, created, createSettled, revalidated, result>>

\* The fetch settles: the scraper returns, getProductDetails completes and
\* addProduct runs on to its return or to the create call.
FetchSettles ==
    /\ pc = "fetching"
    /\ \E r \in Responses :
        LET scraped == getRelianceDigitalArticleId(r)
            d       == getProductDetails(formData.url, formData.partNumber, scraped.articleId)
        IN  /\ response' = r
            /\ tiers' = scraped.tiers
            /\ internalArticleId' = scraped.articleId
            /\ details' = d
            /\ AfterDetails(formData, d)
    /\ UNCHANGED <<formData, fetches, createSettled, revalidated>>

\* prisma.product.create resolves: revalidatePath('/') and the success result.
CreateResolves ==
    /\ pc = "creating"
    /\ createSettled' = "resolved"
    /\ revalidated' = revalidated + 1
    /\ result' = Return([success |-> AddedPrefix \o Field(details.value, "name")])
    /\ pc' = "done"
    /\ UNCHANGED <<formData, fetches, response, tiers, internalArticleId, details, created>>

\* prisma.product.create rejects: the catch block returns the generic error.
CreateRejects ==
    /\ pc = "creating"
    /\ createSettled' = "rejected"
    /\ result' = Return([error |-> "Failed to add product. Is it a duplicate?"])
    /\ pc' = "done"
    /\ UNCHANGED <<formData, fetches, response, tiers, internalArticleId, details, created, revalidated>>

Next ==
    \/ AddProductNoUrl
    \/ AddProductResolve
    \/ AddProductFetch
    \/ FetchSettles
    \/ CreateResolves
    \/ CreateRejects

Spec == Init /\ [][Next]_vars

\* ------------------------------------------------------------------------
\* Properties
\* ------------------------------------------------------------------------

DescriptorFields == {"name", "productId", "storeType", "partNumber"}

IsDescriptor(o) == DOMAIN o = DescriptorFields

IsFailure(o) == DOMAIN o = {"error"}

\* getProductDetails has completed by returning a value.
Returned == details.type = "return"

Signatures ==
    {SigVivo, SigIqoo, SigReliance, SigFlipkart, SigAmazon, SigApple, SigCroma}

\* The non-empty path segments of the submitted url.
UrlSegments == NonEmptyParts(Split(formData.url.pathname))

\* The submitted url is one the Reliance Digital branch handles.
RelianceUrl ==
    /\ formData.url.given = "text"
    /\ formData.url.parses
    /\ Includes(formData.url.hostname, SigReliance)
    /\ ~Includes(formData.url.hostname, SigVivo)
    /\ ~Includes(formData.url.hostname, SigIqoo)

CodeStructured ==
    <<"3", "0", "0", "0", "1", "2", "3", "4", "5">>

CodeImage ==
    <<"3", "0", "0", "0", "5", "4", "3", "2", "1">>

PrefixOf(storeType) ==
    CASE storeType = "vivo"             -> VivoPrefix
      [] storeType = "iqoo"             -> IqooPrefix
      [] storeType = "reliance_digital" -> ReliancePrefix
      [] storeType = "flipkart"         -> FlipkartPrefix
      [] storeType = "amazon"           -> AmazonPrefix
      [] storeType = "apple"            -> ApplePrefix
      [] storeType = "croma"            -> CromaPrefix

\* C1: once getProductDetails has completed, for any submitted url (also one
\* that does not parse) and any outcome of the fetch, it has returned rather
\* than thrown, and the returned object is either a descriptor with exactly
\* the fields name, productId, storeType, partNumber or a failure with
\* exactly the field error, which holds a message; and a call of addProduct
\* that got past the url test and has finished has such a completion.
C1_ExactlyOneOutcome ==
    /\ details.type # "pending" =>
           /\ details.type = "return"
           /\ \/ IsDescriptor(details.value)
              \/ IsFailure(details.value) /\ details.value.error # ""
    /\ (pc = "done" /\ ~UrlMissing(formData.url)) => details.type # "pending"

\* The fetch failed with a transport exception and the resolver returned a
\* failure value.
C1_Witness ==
    /\ response.outcome = "exception"
    /\ Returned
    /\ IsFailure(details.value)

\* C2: for a parsed url whose hostname contains none of the seven
\* signatures, the resolver returns the failure with the fixed
\* unsupported-host message, whatever the path, query and part number.
C2_UnsupportedHost ==
    (/\ Returned
     /\ formData.url.parses
     /\ \A sig \in Signatures : ~Includes(formData.url.hostname, sig))
    => details.value =
         [error |-> "Sorry, only Croma, Apple, Amazon, Flipkart, Vivo, iQOO, and Reliance Digital URLs are supported."]

\* A host that misses the Vivo signature by one character, with a path that
\* ends in digits, a pid and a part number, was rejected.
C2_Witness ==
    /\ Returned
    /\ formData.url.hostname = HostNearMiss
    /\ formData.url.pathname = PathOf(<<SegProduct, SegDigits>>, FALSE)
    /\ formData.url.pid = PidValue
    /\ formData.partNumber = PartValue
    /\ IsFailure(details.value)

\* C3: for a hostname that contains 'iqoo.com', also one that contains
\* 'vivo.com' as well, any descriptor returned has storeType 'iqoo', hence
\* never 'vivo'.
C3_IqooNeverVivo ==
    (/\ Returned
     /\ formData.url.parses
     /\ Includes(formData.url.hostname, SigIqoo)
     /\ IsDescriptor(details.value))
    => details.value.storeType = "iqoo"

\* A hostname with both signatures was resolved to an iQOO descriptor.
C3_Witness ==
    /\ Returned
    /\ formData.url.hostname = HostIqooVivo
    /\ Includes(formData.url.hostname, SigVivo)
    /\ IsDescriptor(details.value)
    /\ details.value.storeType = "iqoo"

\* C4: the productId of every returned descriptor is a non-empty string.
C4_ProductIdNonEmpty ==
    (Returned /\ IsDescriptor(details.value)) =>
        /\ IsString(details.value.productId)
        /\ Len(details.value.productId) > 0

\* The page had an Item Code row whose value is empty after trimming, and
\* the descriptor carries the code of the image instead.
C4_Witness ==
    /\ response.outcome = "ok"
    /\ StructuredTier(response.rows) = EmptyString
    /\ Returned
    /\ IsDescriptor(details.value)
    /\ details.value.productId = CodeImage

\* C5 as stated: the name of every returned descriptor, prefix included, has
\* at most 53 characters.
C5_Original ==
    (Returned /\ IsDescriptor(details.value)) => Len(details.value.name) <= 53

\* C5 amended: the name of every returned descriptor is the retailer's
\* prefix followed by at most 53 characters (at most 50 of text and the
\* ellipsis), so at most 66 characters in all.
C5_NameBounded ==
    (Returned /\ IsDescriptor(details.value)) =>
        LET name   == details.value.name
            prefix == PrefixOf(details.value.storeType)
        IN  /\ Len(name) >= Len(prefix) + Len(Ellipsis)
            /\ SubSeq(name, 1, Len(prefix)) = prefix
            /\ SubSeq(name, Len(name) - Len(Ellipsis) + 1, Len(name)) = Ellipsis
            /\ Len(name) - Len(prefix) <= 53
            /\ Len(name) <= 66

\* A Reliance Digital name made from a segment longer than the limit: 13
\* characters of prefix, 50 of text, 3 of ellipsis.
C5_Witness ==
    /\ Returned
    /\ IsDescriptor(details.value)
    /\ details.value.storeType = "reliance_digital"
    /\ Len(details.value.name) = 66

\* C6: for a url classified as Croma, the resolver returns a descriptor
\* exactly when the last non-empty path segment exists and is all digits
\* (what extractCromaProductId returns), with that segment as productId,
\* also for a path that ends with a slash.
C6_CromaLastNonEmptySegment ==
    (/\ Returned
     /\ formData.url.parses
     /\ Classify(formData.url.hostname) = "croma")
    => LET segs == UrlSegments
           last == At(segs, Len(segs) - 1)
       IN  /\ IsDescriptor(details.value) <=> (~Falsy(last) /\ AllDigits(last))
           /\ IsDescriptor(details.value) <=> extractCromaProductId(formData.url) # Null
           /\ IsDescriptor(details.value) => details.value.productId = last

RelianceScraped ==
    /\ Returned
    /\ RelianceUrl
    /\ response.outcome # "none"
    /\ ~Falsy(internalArticleId)

\* C8 as stated: for a Reliance Digital url with any path, a non-empty item
\* code gives a descriptor with that code as productId, the last path
\* segment as partNumber and the name made from the second-to-last segment.
C8_Original ==
    RelianceScraped =>
        LET segs == UrlSegments
        IN  /\ IsDescriptor(details.value)
            /\ details.value.storeType = "reliance_digital"
            /\ details.value.productId = internalArticleId
            /\ details.value.partNumber = At(segs, Len(segs) - 1)
            /\ details.value.name =
                   ReliancePrefix \o TitledName(At(segs, Len(segs) - 2))

\* C8 amended: with at least one non-empty path segment the descriptor is
\* returned, with the last non-empty segment as partNumber and the name
\* made from the second-to-last non-empty segment when there are two or
\* more and from the only segment when there is one; with no non-empty
\* segment the resolution is a failure.
C8_RelianceDescriptor ==
    RelianceScraped =>
        LET segs == UrlSegments
            n    == Len(segs)
        IN  /\ n = 0 => IsFailure(details.value)
            /\ n >= 1 =>
                   /\ IsDescriptor(details.value)
                   /\ details.value.storeType = "reliance_digital"
                   /\ details.value.productId = internalArticleId
                   /\ details.value.partNumber = segs[n]
                   /\ details.value.name =
                          ReliancePrefix \o
                          TitledName(IF n >= 2 THEN segs[n - 1] ELSE segs[n])

\* /product/2057 with a scraped code: the name comes from 'product'.
C8_Witness ==
    /\ RelianceScraped
    /\ formData.url.pathname = PathOf(<<SegProduct, SegDigits>>, FALSE)
    /\ IsDescriptor(details.value)
    /\ details.value.partNumber = SegDigits
    /\ details.value.name =
           ReliancePrefix \o <<"P", "r", "o", "d", "u", "c", "t">> \o Ellipsis

\* C9: a call issues one GET when the url goes to the Reliance Digital
\* branch and none otherwise (missing url, unparseable url, the other
\* retailers, unsupported host); a response without response.ok or a
\* transport exception is not retried and leaves a failure and no record.
C9_SingleFetch ==
    /\ fetches <= 1
    /\ pc # "idle" => fetches = (IF RelianceUrl THEN 1 ELSE 0)
    /\ response.outcome \in {"notOk", "exception"} =>
           /\ fetches = 1
           /\ pc = "done"
           /\ Returned
           /\ IsFailure(details.value)
           /\ created = <<>>

\* The GET came back with a non-success status although the body held an
\* Item Code row; the call ended after that one GET.
C9_Witness ==
    /\ response.outcome = "notOk"
    /\ ~Falsy(StructuredTier(response.rows))
    /\ pc = "done"
    /\ fetches = 1

\* C10: create is called at most once, only with a descriptor returned by
\* getProductDetails and with that descriptor's fields; a missing url ends
\* the call with an error without resolving, fetching, creating or
\* revalidating; a failed resolution ends it with that error without
\* creating or revalidating; revalidation runs only once create has
\* resolved, and a rejected create ends the call with an error.
C10_CreateOnlyWithDescriptor ==
    /\ Len(created) <= 1
    /\ created # <<>> =>
           /\ Returned
           /\ IsDescriptor(details.value)
           /\ created[1].name = details.value.name
           /\ created[1].productId = details.value.productId
           /\ created[1].storeType = details.value.storeType
           /\ created[1].partNumber = details.value.partNumber
    /\ (pc = "done" /\ UrlMissing(formData.url)) =>
           /\ result = Return([error |-> "URL is required."])
           /\ details.type = "pending"
           /\ fetches = 0
           /\ created = <<>>
           /\ revalidated = 0
    /\ (Returned /\ IsFailure(details.value)) =>
           /\ pc = "done"
           /\ result = Return([error |-> details.value.error])
           /\ created = <<>>
           /\ revalidated = 0
    /\ revalidated <= 1
    /\ revalidated = 1 => (createSettled = "resolved" /\ Len(created) = 1)
    /\ createSettled = "rejected" =>
           /\ result.type = "return"
           /\ DOMAIN result.value = {"error"}
           /\ revalidated = 0
    /\ (pc = "done" /\ result.type = "return" /\ "success" \in DOMAIN result.value) =>
           createSettled = "resolved"

\* A descriptor was stored by a create call that then rejected.
C10_Witness ==
    /\ pc = "done"
    /\ createSettled = "rejected"
    /\ Len(created) = 1
    /\ created[1].storeType = details.value.storeType
    /\ DOMAIN result.value = {"error"}

====
